---- MODULE Spec2Model ----
(***************************************************************************)
(* A model of daily's Entry (src/daily/Entry.py): the Entry object with    *)
(* its title, headings dictionary and attrs dictionary, the operations     *)
(* that construct and mutate it, and the Markdown / RST codec.             *)
(*                                                                         *)
(* Python values are modelled as follows.                                  *)
(*   str    a sequence of one-character strings; the attribute markers and *)
(*          the entry separators are single tokens of such a sequence      *)
(*   dict   (headings) a sequence of [k, v] pairs with distinct keys, in   *)
(*          insertion order, as Python keeps it                            *)
(*   attrs  a record [kind, keys, id, tags]; keys holds the keys present   *)
(*   object a dictionary lives in a heap cell and an Entry holds the       *)
(*          cell's reference, so that two entries can hold the same dict   *)
(***************************************************************************)
EXTENDS Integers, Sequences, FiniteSets, TLC

VARIABLES entries, hheap, aheap, id0, last, call

vars == <<entries, hheap, aheap, id0, last, call>>

(***************************************************************************)
(* Bounds of the model.                                                    *)
(***************************************************************************)
MaxTags == 3

MaxBody == 4

MaxBatch == 2

(***************************************************************************)
(* Strings.                                                                *)
(***************************************************************************)
Ord(c) ==
    CASE c = "\n" -> 10
      [] c = " " -> 32
      [] c = "#" -> 35
      [] c = "-" -> 45
      [] c = ".. code-block:: yaml" -> 46
      [] c = ".. end-entry" -> 46
      [] c = "1" -> 49
      [] c = ":" -> 58
      [] c = "<!--- attributes --->" -> 60
      [] c = "<!--- end-entry --->" -> 60
      [] c = "=" -> 61
      [] c = "B" -> 66
      [] c = "D" -> 68
      [] c = "N" -> 78
      [] c = "O" -> 79
      [] c = "T" -> 84
      [] c = "U" -> 85
      [] c = "[" -> 91
      [] c = "]" -> 93
      [] c = "a" -> 97
      [] c = "b" -> 98
      [] c = "c" -> 99
      [] c = "d" -> 100
      [] c = "e" -> 101
      [] c = "g" -> 103
      [] c = "i" -> 105
      [] c = "j" -> 106
      [] c = "n" -> 110
      [] c = "o" -> 111
      [] c = "s" -> 115
      [] c = "t" -> 116
      [] c = "u" -> 117
      [] c = "x" -> 120
      [] c = "y" -> 121
      [] c = "z" -> 122

IsSpace(c) == c \in {" ", "\n"}

MinOf(S) == CHOOSE x \in S : \A y \in S : x <= y

MaxOf(S) == CHOOSE x \in S : \A y \in S : y <= x

\* the member of a one-member set: The({F(x) : x \in {e}}) is F(e), with e
\* evaluated once however often F uses x
The(S) == CHOOSE r \in S : TRUE

\* str.strip()
Strip(s) ==
    LET keep == {i \in DOMAIN s : ~IsSpace(s[i])}
    IN  IF keep = {} THEN <<>> ELSE SubSeq(s, MinOf(keep), MaxOf(keep))

\* str.rstrip()
RStrip(s) ==
    LET keep == {i \in DOMAIN s : ~IsSpace(s[i])}
    IN  IF keep = {} THEN <<>> ELSE SubSeq(s, 1, MaxOf(keep))

\* str.startswith(p)
StartsWith(s, p) == Len(s) >= Len(p) /\ SubSeq(s, 1, Len(p)) = p

\* str.endswith(p)
EndsWith(s, p) == Len(s) >= Len(p) /\ SubSeq(s, Len(s) - Len(p) + 1, Len(s)) = p

\* s < t, Python's comparison of two str (by code point, a prefix first)
RECURSIVE StrLess(_, _)
StrLess(s, t) ==
    IF t = <<>> THEN FALSE
    ELSE IF s = <<>> THEN TRUE
    ELSE IF Ord(Head(s)) # Ord(Head(t)) THEN Ord(Head(s)) < Ord(Head(t))
    ELSE StrLess(Tail(s), Tail(t))

\* sorted(S) of a set of str
RECURSIVE SortedSet(_)
SortedSet(S) ==
    IF S = {} THEN <<>>
    ELSE LET m == CHOOSE x \in S : \A y \in S \ {x} : StrLess(x, y)
         IN  <<m>> \o SortedSet(S \ {m})

\* set(xs)
SetOf(xs) == {xs[i] : i \in DOMAIN xs}

\* the sequences over S of length at most n
SeqsUpTo(S, n) == UNION {[1..k -> S] : k \in 0..n}

(***************************************************************************)
(* Dictionaries (headings).                                                *)
(***************************************************************************)
\* k in d
DictHas(d, k) == \E i \in DOMAIN d : d[i].k = k

\* d[k]
DictGet(d, k) == d[CHOOSE i \in DOMAIN d : d[i].k = k].v

\* d[k] = v
DictSet(d, k, v) ==
    IF DictHas(d, k)
    THEN [i \in DOMAIN d |-> IF d[i].k = k THEN [k |-> k, v |-> v] ELSE d[i]]
    ELSE Append(d, [k |-> k, v |-> v])

\* del d[k]
DictDel(d, k) == SelectSeq(d, LAMBDA p : p.k # k)

\* d.update(o)
RECURSIVE DictUpdate(_, _)
DictUpdate(d, o) ==
    IF o = <<>> THEN d
    ELSE DictUpdate(DictSet(d, Head(o).k, Head(o).v), Tail(o))

\* the keys of d, in order
DictKeys(d) == [i \in DOMAIN d |-> d[i].k]

\* the mapping d stands for, as a set of pairs (dictionary equality in Python
\* ignores the order)
AsMap(d) == {<<d[i].k, d[i].v>> : i \in DOMAIN d}

(***************************************************************************)
(* Names and pools of inputs.                                              *)
(***************************************************************************)
notes == <<"n", "o", "t", "e", "s">>

todo == <<"t", "o", "d", "o">>

Todo == <<"T", "o", "d", "o">>

EntryNames == {"A", "B"}

Titles == {<<"T">>, <<"U">>}

TagPool == {<<"B">>, <<"a">>}

IdPool == {<<"a", "b", "c">>, <<" ">>}

\* what the clock and the hash can give
GenIds == {<<"g", "1">>, <<"g", "2">>}

EmptyAttrs == [kind |-> "dict", keys |-> {}, id |-> <<>>, tags |-> <<>>]

\* the attrs dictionaries a caller supplies: each of id and tags present or not
AttrsPool ==
    {[kind |-> "dict", keys |-> ks,
      id |-> IF "id" \in ks THEN i ELSE <<>>,
      tags |-> IF "tags" \in ks THEN t ELSE <<>>] :
        ks \in SUBSET {"id", "tags"}, i \in IdPool, t \in SeqsUpTo(TagPool, MaxTags)}

\* the inputs of the specification of identity and tags: few headings
FewLists == {<<>>, <<todo>>}

FewHeadings == {<<>>, <<[k |-> todo, v |-> <<"y">>]>>}

FewTitles == {<<"T">>}

\* the inputs of the specification of the headings: few attrs
AddLists == {<<notes>>, <<todo>>, <<todo, notes>>}

ExpLists == {<<>>, <<notes, todo>>, <<todo>>, <<notes>>, <<Todo>>, <<Todo, notes>>}

HeadingsPool ==
    { <<>>,
      <<[k |-> notes, v |-> <<"n">>], [k |-> todo, v |-> <<"x">>]>>,
      <<[k |-> todo, v |-> <<"y">>]>> }

FewAttrs == {EmptyAttrs}

FewGenIds == {<<"g", "1">>}

(***************************************************************************)
(* Entry: construction and mutation.                                       *)
(***************************************************************************)
\* sorted(xs) of a list of str, duplicates kept
RECURSIVE SortedList(_)
SortedList(list) ==
    The({IF xs = <<>> THEN <<>>
         ELSE LET i == CHOOSE j \in DOMAIN xs : \A l \in DOMAIN xs : ~StrLess(xs[l], xs[j])
              IN  <<xs[i]>> \o SortedList(SubSeq(xs, 1, i - 1) \o SubSeq(xs, i + 1, Len(xs))) :
         xs \in {list}})

\* refresh as sorted(list(tags)): the set() forgotten
RefreshTagsNoSet(tags) == SortedList(tags)

\* refresh, line 301: the tags, sorted and without duplicates
RefreshTags(tags) == SortedSet(SetOf(tags))

\* __init__, line 130: is an id to be generated
NeedsId(attrs) == "id" \notin attrs.keys \/ Strip(attrs.id) = <<>>

\* __init__, lines 130-136, on the attrs dictionary the caller gave, with the
\* generated id g
InitAttrs(attrs, g) ==
    [kind |-> "dict",
     keys |-> attrs.keys \cup {"id", "tags"},
     id |-> IF NeedsId(attrs) THEN g ELSE attrs.id,
     tags |-> RefreshTags(IF "tags" \notin attrs.keys \/ attrs.tags = <<>>
                          THEN <<>> ELSE attrs.tags)]

\* addHeadings on the headings dictionary
RECURSIVE AddHeadingsTo(_, _)
AddHeadingsTo(d, names) ==
    IF names = <<>> THEN d
    ELSE AddHeadingsTo(IF DictHas(d, Head(names)) THEN d
                       ELSE DictSet(d, Head(names), <<>>), Tail(names))

\* update without line 325: the old id is not put back
UpdateAttrsKeepNew(selfAttrs, newAttrs) ==
    [newAttrs EXCEPT !.tags = RefreshTags(newAttrs.tags)]

\* update, lines 322-325 and 336: the receiver's new attrs
UpdateAttrs(selfAttrs, newAttrs) ==
    [newAttrs EXCEPT !.keys = newAttrs.keys \cup {"id"},
                     !.id = selfAttrs.id,
                     !.tags = RefreshTags(newAttrs.tags)]

\* lines 330-332 with the test of line 331 inverted ("in" for "not in")
RECURSIVE DeleteExpectedInverted(_, _, _)
DeleteExpectedInverted(selfH, newH, exp) ==
    IF exp = <<>> THEN selfH
    ELSE DeleteExpectedInverted(
            IF DictHas(newH, Head(exp)) /\ DictHas(selfH, Head(exp))
            THEN DictDel(selfH, Head(exp)) ELSE selfH,
            newH, Tail(exp))

\* update, lines 330-332: the expected headings the new entry lacks are deleted
RECURSIVE DeleteExpected(_, _, _)
DeleteExpected(selfH, newH, exp) ==
    IF exp = <<>> THEN selfH
    ELSE DeleteExpected(
            IF ~DictHas(newH, Head(exp)) /\ DictHas(selfH, Head(exp))
            THEN DictDel(selfH, Head(exp)) ELSE selfH,
            newH, Tail(exp))

\* update, lines 330-334, on the receiver's headings dictionary
UpdateHeadings(selfH, newH, exp) ==
    DictUpdate(DeleteExpected(selfH, newH, exp), newH)

(***************************************************************************)
(* The codec: text to Entry and back.  An Entry is here a value            *)
(* [title, headings, attrs]; a call returns [err, entry, text, entries],   *)
(* err naming the exception raised ("none": the call returned).            *)
(***************************************************************************)
md_sep == <<"<!--- end-entry --->">>

rst_sep == <<".. end-entry">>

attr_header_md == <<"<!--- attributes --->">>

attr_header_rst == <<".. code-block:: yaml">>

NL == <<"\n">>

\* the index of the first sep in s, 0 when there is none
Find(s, sep) ==
    LET hits == {i \in 1..(Len(s) - Len(sep) + 1) : SubSeq(s, i, i + Len(sep) - 1) = sep}
    IN  IF hits = {} THEN 0 ELSE MinOf(hits)

\* s.split(sep)
RECURSIVE SplitOn(_, _)
SplitOn(str, sep) ==
    The({IF i = 0 THEN <<s>>
         ELSE <<SubSeq(s, 1, i - 1)>> \o SplitOn(SubSeq(s, i + Len(sep), Len(s)), sep) :
         <<s, i>> \in {<<str, Find(str, sep)>>}})

\* sep.join(parts)
RECURSIVE JoinWith(_, _)
JoinWith(sep, list) ==
    The({IF parts = <<>> THEN <<>>
         ELSE IF Len(parts) = 1 THEN parts[1]
         ELSE parts[1] \o sep \o JoinWith(sep, Tail(parts)) :
         parts \in {list}})

\* s.splitlines()
SplitLines(s) ==
    LET p == SplitOn(s, NL)
    IN  IF p[Len(p)] = <<>> THEN SubSeq(p, 1, Len(p) - 1) ELSE p

\* s.split(): the words of s
RECURSIVE SplitWs(_)
SplitWs(str) ==
    The({LET keep == {i \in DOMAIN s : ~IsSpace(s[i])}
         IN  IF keep = {} THEN <<>>
             ELSE LET b == MinOf(keep)
                      ws == {i \in b..Len(s) : IsSpace(s[i])}
                      e == IF ws = {} THEN Len(s) + 1 ELSE MinOf(ws)
                  IN  <<SubSeq(s, b, e - 1)>> \o SplitWs(SubSeq(s, e, Len(s))) :
         s \in {str}})

\* c.lower()
Lower(c) ==
    CASE c = "B" -> "b"
      [] c = "D" -> "d"
      [] c = "N" -> "n"
      [] c = "O" -> "o"
      [] c = "T" -> "t"
      [] c = "U" -> "u"
      [] OTHER -> c

LowerStr(s) == [i \in DOMAIN s |-> Lower(s[i])]

\* c * n
Repeat(c, n) == [i \in 1..n |-> c]

\* the members of a set of numbers, ascending
Ascending(S) ==
    [k \in 1..Cardinality(S) |-> CHOOSE x \in S : Cardinality({y \in S : y < x}) = k - 1]

_is_rst_heading(s) ==
    LET t == Strip(s) IN StartsWith(t, <<"=">>) /\ EndsWith(t, <<"=">>)

_is_md_heading(s) ==
    LET t == Strip(s) IN StartsWith(t, <<"#", " ">>) \/ StartsWith(t, <<"#", "#", " ">>)

NoneAttrs == [kind |-> "None", keys |-> {}, id |-> <<>>, tags |-> <<>>]

\* yaml.dump(attrs).splitlines(): the keys in order, a list in block style
YamlDumpLines(attrs) ==
    (IF "id" \in attrs.keys THEN <<<<"i", "d", ":", " ">> \o attrs.id>> ELSE <<>>)
    \o (IF "tags" \notin attrs.keys THEN <<>>
        ELSE IF attrs.tags = <<>> THEN <<<<"t", "a", "g", "s", ":", " ", "[", "]">>>>
        ELSE <<<<"t", "a", "g", "s", ":">>>>
             \o [i \in DOMAIN attrs.tags |-> <<"-", " ">> \o attrs.tags[i]])

\* yaml.safe_load on the lines of a document of this shape
RECURSIVE YamlLoadLines(_, _)
YamlLoadLines(lines, acc) ==
    IF lines = <<>> THEN acc
    ELSE LET l == Strip(Head(lines))
             next ==
                 CASE l = <<"-", "-", "-">> -> acc
                   [] StartsWith(l, <<"i", "d", ":", " ">>) ->
                        [acc EXCEPT !.keys = @ \cup {"id"}, !.id = SubSeq(l, 5, Len(l))]
                   [] l = <<"t", "a", "g", "s", ":", " ", "[", "]">> ->
                        [acc EXCEPT !.keys = @ \cup {"tags"}, !.tags = <<>>]
                   [] l = <<"t", "a", "g", "s", ":">> ->
                        [acc EXCEPT !.keys = @ \cup {"tags"}, !.tags = <<>>]
                   [] StartsWith(l, <<"-", " ">>) ->
                        [acc EXCEPT !.tags = Append(@, SubSeq(l, 3, Len(l)))]
                   [] OTHER -> [acc EXCEPT !.kind = "YAMLError"]
         IN  YamlLoadLines(Tail(lines), next)

\* yaml.safe_load(text): None for the empty document
YamlLoad(text) ==
    IF text = <<>> THEN NoneAttrs ELSE YamlLoadLines(SplitLines(text), EmptyAttrs)

NoEntryVal == [title |-> <<>>, headings |-> <<>>, attrs |-> EmptyAttrs]

Returned(err, e, text, es) == [err |-> err, entry |-> e, text |-> text, entries |-> es]

Raised(err) == Returned(err, NoEntryVal, <<>>, <<>>)

\* Entry(title, headings, attrs), g the id generated when one is needed; the
\* test of line 130 raises on an attrs that is None
EntryNew(title, headings, attrs, g) ==
    IF attrs.kind = "YAMLError" THEN Raised("YAMLError")
    ELSE IF attrs.kind = "None" THEN Raised("TypeError")
    ELSE Returned("none",
                  [title |-> title, headings |-> headings, attrs |-> InitAttrs(attrs, g)],
                  <<>>, <<>>)

\* the body of a chunk and its attribute section: lines 190-196 and 258-263
SplitAttrs(text, attr_header) ==
    LET parts == SplitOn(text, attr_header)
        padded == IF Len(parts) = 1 THEN Append(parts, <<>>) ELSE parts
    IN  [attrs |-> YamlLoad(Strip(padded[Len(padded)])),
         lines |-> SplitLines(JoinWith(attr_header, SubSeq(padded, 1, Len(padded) - 1)))]

\* createFromMd, line 218
MdHeadingName(line) == Strip(JoinWith(<<>>, Tail(SplitOn(line, <<"#", "#">>))))

\* createFromMd, lines 217-221; pts are the heading lines, then len(md)
RECURSIVE MdSections(_, _, _, _)
MdSections(md, pts, ptr, headings) ==
    IF ptr > Len(pts) - 1 THEN headings
    ELSE MdSections(md, pts, ptr + 1,
            DictSet(headings, MdHeadingName(md[pts[ptr]]),
                    JoinWith(NL, SubSeq(md, pts[ptr] + 1, pts[ptr + 1] - 1))))

\* createFromMd, lines 209-214: the notes are md[1:heading_pts[1]]
MdNotes(md, pts) == JoinWith(NL, SubSeq(md, 2, pts[2] - 1))

\* createFromMd, line 199: the heading lines, and len(md) after them (line 205)
MdHeadingPts(md) ==
    Append(Ascending({i \in DOMAIN md : _is_md_heading(md[i])}), Len(md) + 1)

\* createFromMd, lines 198-223, on the lines of the body and the attrs
MdEntry(md, attrs, g) ==
    The({LET title == JoinWith(<<" ">>, Tail(SplitWs(md[pts[1]])))
             n == MdNotes(md, pts)
             h0 == IF Strip(n) = <<>> THEN <<>> ELSE <<[k |-> notes, v |-> n]>>
         IN  IF Len(pts) = 1 THEN Raised("ValueError")
             ELSE EntryNew(title, MdSections(md, pts, 2, h0), attrs, g) :
         pts \in {MdHeadingPts(md)}})

createFromMd(text, g) ==
    The({IF md0 = <<>> THEN Raised("ValueError")
         ELSE The({IF sp.attrs.kind = "YAMLError" THEN Raised("YAMLError")
                   ELSE MdEntry(sp.lines, sp.attrs, g) :
                   sp \in {SplitAttrs(md0, attr_header_md)}}) :
         md0 \in {Strip(text)}})

\* createFromRst, lines 288-292; pts are the lines above the markers, then
\* len(rst)
RECURSIVE RstSections(_, _, _, _)
RstSections(rst, pts, ptr, headings) ==
    IF ptr > Len(pts) - 1 THEN headings
    ELSE RstSections(rst, pts, ptr + 1,
            DictSet(headings, rst[pts[ptr]],
                    JoinWith(NL, SubSeq(rst, pts[ptr] + 2, pts[ptr + 1] - 1))))

\* createFromRst, lines 280-285: the notes are rst[heading_pts[0] + 2:heading_pts[1]]
RstNotes(rst, pts) == JoinWith(NL, SubSeq(rst, pts[1] + 2, pts[2] - 1))

\* createFromRst, line 270: the lines above the marker lines, and len(rst)
\* after them (line 276)
RstHeadingPts(rst) ==
    Append(Ascending({i - 1 : i \in {j \in DOMAIN rst : _is_rst_heading(rst[j])}}),
           Len(rst) + 1)

\* createFromRst, lines 269-294, on the lines of the body (the first line of
\* === stripped) and the attrs
RstEntry(rst, attrs, g) ==
    The({LET title == Strip(rst[pts[1]])
             n == RstNotes(rst, pts)
             h0 == IF Strip(n) = <<>> THEN <<>> ELSE <<[k |-> notes, v |-> n]>>
         IN  IF Len(pts) = 1 \/ pts[1] = 0 THEN Raised("ValueError")
             ELSE EntryNew(title, RstSections(rst, pts, 2, h0), attrs, g) :
         pts \in {RstHeadingPts(rst)}})

createFromRst(text, g) ==
    The({IF rst0 = <<>> THEN Raised("ValueError")
         ELSE The({IF sp.attrs.kind = "YAMLError" THEN Raised("YAMLError")
                   ELSE IF sp.lines = <<>> THEN Raised("IndexError")
                   ELSE RstEntry(IF _is_rst_heading(sp.lines[1]) THEN Tail(sp.lines)
                                 ELSE sp.lines, sp.attrs, g) :
                   sp \in {SplitAttrs(rst0, attr_header_rst)}}) :
         rst0 \in {Strip(text)}})

\* lines 341-343 and 395-397: the headings asked for, in lower case
Requested(e, req) ==
    LET hs == IF req = <<>> THEN DictKeys(e.headings) ELSE req
    IN  [i \in DOMAIN hs |-> LowerStr(hs[i])]

\* lines 354 and 410: {k.lower(): k for k in self.headings}
RECURSIVE LookupHeadings(_, _)
LookupHeadings(d, acc) ==
    IF d = <<>> THEN acc
    ELSE LookupHeadings(Tail(d), DictSet(acc, LowerStr(Head(d).k), Head(d).k))

\* the headings the loops of lines 355 and 411 show
Shown(e, hs) ==
    SelectSeq(hs, LAMBDA h : h # notes /\ DictHas(LookupHeadings(e.headings, <<>>), h))

Indented(lines) == [i \in DOMAIN lines |-> <<" ", " ", " ", " ">> \o lines[i]]

RECURSIVE MdSectionLines(_, _)
MdSectionLines(e, hs) ==
    IF hs = <<>> THEN <<>>
    ELSE LET name == DictGet(LookupHeadings(e.headings, <<>>), Head(hs))
         IN  <<<<"#", "#", " ">> \o name, RStrip(DictGet(e.headings, name)), <<>>>>
             \o MdSectionLines(e, Tail(hs))

getMd(e, req, force) ==
    LET hs == Requested(e, req)
        wantNotes == notes \in SetOf(hs)
        shown == Shown(e, hs)
        display == wantNotes \/ shown # <<>>
        s == <<<<"#", " ">> \o e.title>>
             \o (IF wantNotes THEN <<RStrip(DictGet(e.headings, notes)), <<>>>> ELSE <<>>)
             \o MdSectionLines(e, shown)
             \o (IF ~display /\ force THEN <<<<>>>> ELSE <<>>)
             \o <<<<>>, attr_header_md>>
             \o Indented(<<<<"-", "-", "-">>>> \o YamlDumpLines(e.attrs))
             \o <<<<>>>>
    IN  IF wantNotes /\ ~DictHas(e.headings, notes) THEN Raised("KeyError")
        ELSE Returned("none", e, IF display \/ force THEN JoinWith(NL, s) ELSE <<>>, <<>>)

RECURSIVE RstSectionLines(_, _)
RstSectionLines(e, hs) ==
    IF hs = <<>> THEN <<>>
    ELSE LET name == DictGet(LookupHeadings(e.headings, <<>>), Head(hs))
         IN  <<name, Repeat("=", Len(name)), RStrip(DictGet(e.headings, name)), <<>>>>
             \o RstSectionLines(e, Tail(hs))

getRst(e, req, force) ==
    LET hs == Requested(e, req)
        wantNotes == notes \in SetOf(hs)
        shown == Shown(e, hs)
        display == wantNotes \/ shown # <<>>
        s == <<Repeat("=", Len(e.title) + 2), <<" ">> \o e.title,
               Repeat("=", Len(e.title) + 2)>>
             \o (IF wantNotes THEN <<RStrip(DictGet(e.headings, notes)), <<>>>> ELSE <<>>)
             \o RstSectionLines(e, shown)
             \o (IF ~display /\ force THEN <<<<>>>> ELSE <<>>)
             \o <<<<>>, attr_header_rst, <<>>>>
             \o Indented(<<<<"-", "-", "-">>>> \o YamlDumpLines(e.attrs))
             \o <<<<>>>>
    IN  IF wantNotes /\ ~DictHas(e.headings, notes) THEN Raised("KeyError")
        ELSE Returned("none", e, IF display \/ force THEN JoinWith(NL, s) ELSE <<>>, <<>>)

\* entries_to_str(entries, entry_format) with headings=None
entries_to_str(es, entry_format) ==
    The({LET failed == {i \in DOMAIN es : rs[i].err # "none"}
             texts == SelectSeq([i \in DOMAIN es |-> rs[i].text], LAMBDA t : t # <<>>)
             sep == IF entry_format = "rst" THEN rst_sep ELSE md_sep
         IN  IF failed # {} THEN Raised(rs[MinOf(failed)].err)
             ELSE Returned("none", NoEntryVal,
                           JoinWith(NL \o sep \o NL \o NL \o NL, SortedList(texts)), <<>>) :
         rs \in {<<>> \o [i \in DOMAIN es |->
                              IF entry_format = "rst" THEN getRst(es[i], <<>>, FALSE)
                              ELSE getMd(es[i], <<>>, FALSE)]}})

\* str_to_entries(text, entry_format): get_entries_from_md / get_entries_from_rst
\* lines 36-41 and 53-57: every text parsed, the first failure raised
ParseEach(texts, entry_format, g) ==
    The({LET failed == {i \in DOMAIN rs : rs[i].err # "none"}
         IN  IF failed # {} THEN Raised(rs[MinOf(failed)].err)
             ELSE Returned("none", NoEntryVal, <<>>, [i \in DOMAIN rs |-> rs[i].entry]) :
         rs \in {<<>> \o [i \in DOMAIN texts |->
                              IF entry_format = "rst" THEN createFromRst(texts[i], g)
                              ELSE createFromMd(texts[i], g)]}})

str_to_entries(text, entry_format, g) ==
    The({IF t = <<>> THEN Returned("none", NoEntryVal, <<>>, <<>>)
         ELSE The({ParseEach(IF split[Len(split)] = <<>>
                             THEN SubSeq(split, 1, Len(split) - 1) ELSE split,
                             entry_format, g) :
                   split \in {SplitOn(t, IF entry_format = "rst" THEN rst_sep ELSE md_sep)}}) :
         t \in {Strip(text)}})

(***************************************************************************)
(* The inputs of the codec.                                                *)
(***************************************************************************)
MdBodyLines == {<<"#", " ", "T">>, <<"#", "#", " ", "t", "o", "d", "o">>, <<"n">>, <<>>}

RstBodyLines == {<<"=", "=", "=">>, <<"T">>, <<"n">>, <<>>}

WithId == [kind |-> "dict", keys |-> {"id", "tags"}, id |-> <<"a", "b", "c">>, tags |-> <<>>]

WithTags ==
    [kind |-> "dict", keys |-> {"id", "tags"}, id |-> <<"a", "b", "c">>,
     tags |-> <<<<"B">>, <<"a">>>>]

\* the attribute section of a chunk: none, a marker with nothing under it, or
\* a marker and a block
AttrSections(attr_header) ==
    {<<>>, NL \o attr_header \o NL}
    \cup {NL \o attr_header \o NL
             \o JoinWith(NL, Indented(<<<<"-", "-", "-">>>> \o YamlDumpLines(a))) \o NL :
          a \in {WithId, [WithTags EXCEPT !.keys = {"tags"}]}}

Chunks(bodyLines, attr_header) ==
    {JoinWith(NL, b) \o a : b \in SeqsUpTo(bodyLines, MaxBody), a \in AttrSections(attr_header)}

CodecHeadings ==
    { <<>>,
      <<[k |-> notes, v |-> <<"n">>]>>,
      <<[k |-> todo, v |-> <<"x">>]>>,
      <<[k |-> notes, v |-> <<"n">>], [k |-> Todo, v |-> <<"z">>]>>,
      <<[k |-> <<"N", "o", "t", "e", "s">>, v |-> <<"n">>]>>,
      <<[k |-> todo, v |-> <<>>]>>,
      <<[k |-> notes, v |-> <<>>]>> }

CodecEntries ==
    {[title |-> t, headings |-> h, attrs |-> a] :
        t \in Titles, h \in CodecHeadings, a \in {WithId, WithTags}}

ReqLists == {<<>>, <<notes>>, <<todo>>, <<<<"T", "O", "D", "O">>, notes>>, <<<<"z">>>>}

NoCall ==
    [op |-> "none", chunk |-> <<>>, entry |-> NoEntryVal, req |-> <<>>, force |-> FALSE,
     batch |-> <<>>, res |-> Raised("none")]

(***************************************************************************)
(* The heap.  A cell no entry refers to is garbage: it is emptied, and a   *)
(* new dictionary takes the first such cell.                               *)
(***************************************************************************)
Refs == 1..Cardinality(EntryNames)

NoEntry == [live |-> FALSE, title |-> <<>>, headings |-> 0, attrs |-> 0]

Live(es) == {e \in EntryNames : es[e].live}

HRefs(es) == {es[e].headings : e \in Live(es)}

ARefs(es) == {es[e].attrs : e \in Live(es)}

NewRef(used) == MinOf(Refs \ used)

Collect(heap, used, empty) == [r \in Refs |-> IF r \in used THEN heap[r] ELSE empty]

Headings(e) == hheap[entries[e].headings]

Attrs(e) == aheap[entries[e].attrs]

NoLast ==
    [op |-> "none", recv |-> "A", other |-> "A", exp |-> <<>>,
     pre |-> <<>>, oth |-> <<>>, supplied |-> <<>>]

Init ==
    /\ entries = [e \in EntryNames |-> NoEntry]
    /\ hheap = [r \in Refs |-> <<>>]
    /\ aheap = [r \in Refs |-> EmptyAttrs]
    /\ id0 = [e \in EntryNames |-> <<>>]
    /\ last = NoLast
    /\ call = NoCall

\* Entry(title, headings, attrs) with a dictionary of the caller's own
Construct(e, title, hd, at, g) ==
    /\ ~entries[e].live
    /\ LET h == NewRef(HRefs(entries))
           a == NewRef(ARefs(entries))
       IN  /\ entries' = [entries EXCEPT ![e] =
                  [live |-> TRUE, title |-> title, headings |-> h, attrs |-> a]]
           /\ hheap' = [hheap EXCEPT ![h] = hd]
           /\ aheap' = [aheap EXCEPT ![a] = InitAttrs(at, g)]
           /\ id0' = [id0 EXCEPT ![e] = InitAttrs(at, g).id]
           /\ last' = [NoLast EXCEPT !.op = "construct", !.recv = e,
                                     !.supplied = at.tags]
    /\ UNCHANGED call

\* Entry(title, headings, src.attrs): the caller hands over the attrs
\* dictionary of another entry, which __init__ keeps as it is (line 128)
ConstructSharing(e, title, hd, src, g) ==
    /\ ~entries[e].live
    /\ entries[src].live
    /\ LET h == NewRef(HRefs(entries))
           a == entries[src].attrs
       IN  /\ entries' = [entries EXCEPT ![e] =
                  [live |-> TRUE, title |-> title, headings |-> h, attrs |-> a]]
           /\ hheap' = [hheap EXCEPT ![h] = hd]
           /\ aheap' = [aheap EXCEPT ![a] = InitAttrs(aheap[a], g)]
           /\ id0' = [id0 EXCEPT ![e] = InitAttrs(aheap[a], g).id]
           /\ last' = [NoLast EXCEPT !.op = "construct", !.recv = e,
                                     !.supplied = aheap[a].tags]
    /\ UNCHANGED call

AddHeadings(e, names) ==
    /\ entries[e].live
    /\ hheap' = [hheap EXCEPT ![entries[e].headings] = AddHeadingsTo(@, names)]
    /\ last' = [NoLast EXCEPT !.op = "addHeadings", !.recv = e, !.exp = names]
    /\ UNCHANGED <<entries, aheap, id0, call>>

Refresh(e) ==
    /\ entries[e].live
    /\ aheap' = [aheap EXCEPT ![entries[e].attrs].tags = RefreshTags(@)]
    /\ last' = [NoLast EXCEPT !.op = "refresh", !.recv = e]
    /\ UNCHANGED <<entries, hheap, id0, call>>

\* self.update(new_entry, exp_headings); None and [] are the same (line 319)
Update(self, new, exp) ==
    /\ entries[self].live
    /\ entries[new].live
    /\ LET others == Live(entries) \ {self}
           a == NewRef({entries[e].attrs : e \in others})
           h == IF exp = <<>> THEN entries[new].headings
                ELSE entries[self].headings
           es == [entries EXCEPT ![self].title = entries[new].title,
                                 ![self].attrs = a,
                                 ![self].headings = h]
       IN  /\ entries' = es
           /\ aheap' = Collect([aheap EXCEPT ![a] = UpdateAttrs(Attrs(self), Attrs(new))],
                               ARefs(es), EmptyAttrs)
           /\ hheap' = Collect(IF exp = <<>> THEN hheap
                               ELSE [hheap EXCEPT ![h] =
                                        UpdateHeadings(Headings(self), Headings(new), exp)],
                               HRefs(es), <<>>)
    /\ last' = [NoLast EXCEPT !.op = "update", !.recv = self, !.other = new,
                              !.exp = exp,
                              !.pre = IF exp = <<>> THEN <<>> ELSE Headings(self),
                              !.oth = IF exp = <<>> THEN <<>> ELSE Headings(new),
                              !.supplied = Attrs(new).tags]
    /\ UNCHANGED <<id0, call>>

Step(titles, hpool, apool, gens, addLists, expLists) ==
    \/ \E e \in EntryNames, t \in titles, hd \in hpool, at \in apool, g \in gens :
          Construct(e, t, hd, at, g)
    \/ \E e \in EntryNames, t \in titles, hd \in hpool, src \in EntryNames, g \in gens :
          ConstructSharing(e, t, hd, src, g)
    \/ \E e \in EntryNames, ns \in addLists : AddHeadings(e, ns)
    \/ \E e \in EntryNames : Refresh(e)
    \/ \E a \in EntryNames, b \in EntryNames, exp \in expLists :
          Update(a, b, exp)

\* identity and tags: every attrs dictionary, few headings
Next == Step(FewTitles, FewHeadings, AttrsPool, GenIds, FewLists, FewLists)

Spec == Init /\ [][Next]_vars

\* headings: every headings dictionary, few attrs
NextHeadings == Step(Titles, HeadingsPool, FewAttrs, FewGenIds, AddLists, ExpLists)

SpecHeadings == Init /\ [][NextHeadings]_vars

(***************************************************************************)
(* The calls of the codec: a behaviour makes one call, on inputs of the     *)
(* pools, and call records it with what it returned or raised.             *)
(***************************************************************************)
CreateFromMd(chunk, g) ==
    /\ call = NoCall
    /\ call' = [NoCall EXCEPT !.op = "createFromMd", !.chunk = chunk,
                              !.res = createFromMd(chunk, g)]
    /\ UNCHANGED <<entries, hheap, aheap, id0, last>>

CreateFromRst(chunk, g) ==
    /\ call = NoCall
    /\ call' = [NoCall EXCEPT !.op = "createFromRst", !.chunk = chunk,
                              !.res = createFromRst(chunk, g)]
    /\ UNCHANGED <<entries, hheap, aheap, id0, last>>

GetMd(e, req, force) ==
    /\ call = NoCall
    /\ call' = [NoCall EXCEPT !.op = "getMd", !.entry = e, !.req = req, !.force = force,
                              !.res = getMd(e, req, force)]
    /\ UNCHANGED <<entries, hheap, aheap, id0, last>>

GetRst(e, req, force) ==
    /\ call = NoCall
    /\ call' = [NoCall EXCEPT !.op = "getRst", !.entry = e, !.req = req, !.force = force,
                              !.res = getRst(e, req, force)]
    /\ UNCHANGED <<entries, hheap, aheap, id0, last>>

\* createFromMd(e.getMd(None, force=True))
RoundTripMd(e, g) ==
    /\ call = NoCall
    /\ \E s \in {getMd(e, <<>>, TRUE)} :
           call' = [NoCall EXCEPT !.op = "roundTripMd", !.entry = e, !.force = TRUE,
                                  !.chunk = s.text,
                                  !.res = IF s.err # "none" THEN s
                                          ELSE createFromMd(s.text, g)]
    /\ UNCHANGED <<entries, hheap, aheap, id0, last>>

\* createFromRst(e.getRst(None, force=True))
RoundTripRst(e, g) ==
    /\ call = NoCall
    /\ \E s \in {getRst(e, <<>>, TRUE)} :
           call' = [NoCall EXCEPT !.op = "roundTripRst", !.entry = e, !.force = TRUE,
                                  !.chunk = s.text,
                                  !.res = IF s.err # "none" THEN s
                                          ELSE createFromRst(s.text, g)]
    /\ UNCHANGED <<entries, hheap, aheap, id0, last>>

\* str_to_entries(entries_to_str(entries, entry_format), entry_format)
Batch(es, entry_format, g) ==
    /\ call = NoCall
    /\ \E s \in {entries_to_str(es, entry_format)} :
           call' = [NoCall EXCEPT !.op = "batch", !.batch = es, !.req = <<entry_format>>,
                                  !.chunk = s.text,
                                  !.res = IF s.err # "none" THEN s
                                          ELSE str_to_entries(s.text, entry_format, g)]
    /\ UNCHANGED <<entries, hheap, aheap, id0, last>>

NextCodec ==
    \/ \E c \in Chunks(MdBodyLines, attr_header_md), g \in FewGenIds : CreateFromMd(c, g)
    \/ \E c \in Chunks(RstBodyLines, attr_header_rst), g \in FewGenIds : CreateFromRst(c, g)
    \/ \E e \in CodecEntries, req \in ReqLists, force \in BOOLEAN : GetMd(e, req, force)
    \/ \E e \in CodecEntries, req \in ReqLists, force \in BOOLEAN : GetRst(e, req, force)
    \/ \E e \in CodecEntries, g \in FewGenIds : RoundTripMd(e, g)
    \/ \E e \in CodecEntries, g \in FewGenIds : RoundTripRst(e, g)
    \/ \E es \in SeqsUpTo(CodecEntries, MaxBatch), f \in {"md", "rst"}, g \in FewGenIds :
          Batch(es, f, g)

SpecCodec == Init /\ [][NextCodec]_vars

(***************************************************************************)
(* Claims about the Entry object.                                          *)
(***************************************************************************)
\* C1: the id an entry got at construction is its id after every sequence of
\* update and addHeadings calls (and of constructions of other entries and
\* refreshes), whatever the other entry's id and the expected headings are.
C1_IdStable == \A e \in Live(entries) : Attrs(e).id = id0[e]

\* an update from an entry with another id and other tags, with expected
\* headings given, has been applied
C1_Witness ==
    /\ last.op = "update"
    /\ last.recv # last.other
    /\ last.exp # <<>>
    /\ Attrs(last.recv).id # Attrs(last.other).id
    /\ Attrs(last.recv).tags = Attrs(last.other).tags
    /\ Attrs(last.recv).tags # <<>>

StrictlyIncreasing(t) == \A i \in 1..(Len(t) - 1) : StrLess(t[i], t[i + 1])

\* C8: the tags of every entry are strictly increasing (sorted, no duplicate)
\* and a refresh would leave them as they are; after a construction or an
\* update they are exactly the distinct tags supplied.
C8_TagsNormalized ==
    /\ \A e \in Live(entries) :
          /\ StrictlyIncreasing(Attrs(e).tags)
          /\ RefreshTags(Attrs(e).tags) = Attrs(e).tags
    /\ last.op \in {"construct", "update"} =>
          SetOf(Attrs(last.recv).tags) = SetOf(last.supplied)

\* an entry has been constructed from tags out of order and with a duplicate
C8_Witness ==
    /\ last.op = "construct"
    /\ last.supplied = <<<<"a">>, <<"B">>, <<"a">>>>
    /\ Attrs(last.recv).tags = <<<<"B">>, <<"a">>>>

\* C2: after update with expected headings, the receiver's headings are its
\* old headings without every expected name the other entry lacks, overlaid
\* with the other entry's headings; names are compared as they are written.
C2_UpdateExpected ==
    (last.op = "update" /\ last.exp # <<>>) =>
        LET gone == {k \in SetOf(last.exp) : ~DictHas(last.oth, k)}
            kept == {p \in AsMap(last.pre) :
                        p[1] \notin gone /\ ~DictHas(last.oth, p[1])}
        IN  AsMap(Headings(last.recv)) = kept \cup AsMap(last.oth)

\* A = {notes: n, todo: x}, B = {todo: y}, A.update(B, [notes, todo]) has
\* given {todo: y}
C2_Witness ==
    /\ last.op = "update"
    /\ last.exp = <<notes, todo>>
    /\ AsMap(last.pre) = {<<notes, <<"n">>>>, <<todo, <<"x">>>>}
    /\ AsMap(last.oth) = {<<todo, <<"y">>>>}
    /\ AsMap(Headings(last.recv)) = {<<todo, <<"y">>>>}

\* C10: an update or an addHeadings call on one entry leaves the title, the
\* headings and the attrs of every other entry as they were.
C10_NoSharedState ==
    [][\A e \in EntryNames :
          (entries[e].live /\ last'.op \in {"update", "addHeadings"} /\ last'.recv # e)
              => /\ entries'[e].title = entries[e].title
                 /\ hheap'[entries'[e].headings] = Headings(e)
                 /\ aheap'[entries'[e].attrs] = Attrs(e)]_vars

(***************************************************************************)
(* Claims about the codec.                                                 *)
(***************************************************************************)
ParseCalls == {"createFromMd", "createFromRst"}

\* the attribute marker of the grammar of the call
CallHeader ==
    IF call.op \in {"createFromMd", "roundTripMd"} THEN attr_header_md ELSE attr_header_rst

\* the lines of the chunk before its attribute section
BodyLines == SplitAttrs(Strip(call.chunk), CallHeader).lines

\* the body as the RST parser reads it: without a first line of ===
RstBody ==
    IF BodyLines # <<>> /\ _is_rst_heading(BodyLines[1]) THEN Tail(BodyLines) ELSE BodyLines

\* the body has a title heading: a heading line in Markdown, a line with a
\* marker line under it in RST
HasTitle ==
    IF call.op = "createFromMd" THEN Len(MdHeadingPts(BodyLines)) > 1
    ELSE Len(RstHeadingPts(RstBody)) > 1 /\ RstHeadingPts(RstBody)[1] >= 1

\* no line of the body is a heading line of the grammar
NoHeadingLine ==
    \A i \in DOMAIN BodyLines :
        IF call.op = "createFromMd" THEN ~_is_md_heading(BodyLines[i])
        ELSE ~_is_rst_heading(BodyLines[i])

\* the lines strictly between the title heading and the next heading
NotesRegion ==
    IF call.op = "createFromMd"
    THEN SubSeq(BodyLines, MdHeadingPts(BodyLines)[1] + 1, MdHeadingPts(BodyLines)[2] - 1)
    ELSE SubSeq(RstBody, RstHeadingPts(RstBody)[1] + 2, RstHeadingPts(RstBody)[2] - 1)

\* a title of one line, and heading names and contents without a heading line
\* or an attribute marker
WellFormed(e) ==
    /\ e.title # <<>>
    /\ "\n" \notin SetOf(e.title)
    /\ \A i \in DOMAIN e.headings :
          /\ e.headings[i].k # <<>>
          /\ \A t \in {e.headings[i].k, e.headings[i].v} :
                /\ SetOf(t) \cap SetOf(attr_header_md \o attr_header_rst) = {}
                /\ \A l \in SetOf(SplitLines(t)) : ~_is_md_heading(l) /\ ~_is_rst_heading(l)

\* C3: getMd and getRst never fail, whatever heading names are requested:
\* a requested name the entry has no heading for, 'notes' included, is
\* skipped.
C3_SerializeNeverFails == call.op \in {"getMd", "getRst"} => call.res.err = "none"

\* C4: parsing a chunk that is not blank, has a title heading and has no
\* attribute marker succeeds, and the entry has a generated id that is not
\* blank and no tags.
C4_ParseWithoutAttrs ==
    (/\ call.op \in ParseCalls
     /\ Strip(call.chunk) # <<>>
     /\ Find(call.chunk, CallHeader) = 0
     /\ HasTitle)
        => /\ call.res.err = "none"
           /\ Strip(call.res.entry.attrs.id) # <<>>
           /\ call.res.entry.attrs.tags = <<>>

\* C5: parsing the forced serialization of a well-formed entry, all its
\* headings asked for, gives an entry with the same title, the same heading
\* names with the same contents up to trailing whitespace, and the same attrs.
C5_RoundTrip ==
    (call.op \in {"roundTripMd", "roundTripRst"} /\ WellFormed(call.entry))
        => /\ call.res.err = "none"
           /\ call.res.entry.title = call.entry.title
           /\ SetOf(DictKeys(call.res.entry.headings)) = SetOf(DictKeys(call.entry.headings))
           /\ \A k \in SetOf(DictKeys(call.entry.headings)) :
                 RStrip(DictGet(call.res.entry.headings, k))
                     = RStrip(DictGet(call.entry.headings, k))
           /\ call.res.entry.attrs = call.entry.attrs

\* C6: parsing a chunk that is blank, or whose body has no heading line
\* (an empty body under an attribute section included), raises ValueError
\* and nothing else.
C6_NoTitleIsValueError ==
    (call.op \in ParseCalls /\ (Strip(call.chunk) = <<>> \/ NoHeadingLine))
        => call.res.err = "ValueError"

\* C7: str_to_entries(entries_to_str(entries, g), g) succeeds for every list
\* of entries, and the titles it returns are, as a set, the titles of the
\* entries that have a heading (the ones whose serialization is not empty).
C7_BatchRoundTrip ==
    call.op = "batch"
        => /\ call.res.err = "none"
           /\ {call.res.entries[i].title : i \in DOMAIN call.res.entries}
                 = {call.batch[i].title :
                       i \in {j \in DOMAIN call.batch : call.batch[j].headings # <<>>}}

\* C9: the notes of a parsed entry are the body lines strictly between the
\* title heading and the next heading (or the end of the body), wherever the
\* title heading is, and the entry has no notes when those lines are blank.
C9_NotesRegion ==
    (call.op \in ParseCalls /\ call.res.err = "none")
        => LET n == JoinWith(NL, NotesRegion)
           IN  IF Strip(n) = <<>> THEN ~DictHas(call.res.entry.headings, notes)
               ELSE /\ DictHas(call.res.entry.headings, notes)
                    /\ DictGet(call.res.entry.headings, notes) = n

====
